---- MODULE Spec2Model ----
(***************************************************************************)
(* Model of Netlify/functions/enhance-prompt.js: the proxy pool, the       *)
(* health map, the round-robin selector and the retry loop of the handler. *)
(* Time is the value of Date.now(); strings are the program's strings.     *)
(***************************************************************************)
EXTENDS Integers, Sequences, FiniteSets, TLC

VARIABLES
    live,         \* the handler invocations that may run
    env,          \* process.env: the four numeric settings, as text or absent
    config,       \* the four module constants computed from env (lines 47-50)
    PROXIES,      \* the pool, fixed after module load
    proxyHealth,  \* proxy url -> [downUntil |-> timestamp]
    proxyIndex,   \* the round-robin cursor
    clock,        \* Date.now()
    req,          \* one record per handler invocation in progress
    markedAt,     \* history: proxy url -> time of its latest markProxyDown
    picked        \* history: the latest pickNextProxy calls, oldest first

vars == <<live, env, config, PROXIES, proxyHealth, proxyIndex, clock, req, markedAt, picked>>

----------------------------------------------------------------------------
(* Bounds of the model *)

MaxPool == 2          \* largest pool size
MaxClock == 4         \* last value of Date.now() the model reaches
MaxRequests == 2      \* handler invocations the model has room for
RetriesSetting == 2   \* the MAX_RETRIES the environment sets in Spec
MarkDownSetting == 2  \* the PROXY_MARK_DOWN_MS the environment sets in Spec

----------------------------------------------------------------------------
(* JavaScript values *)

null == "null"
undefined == "undefined"

NaN == [nan |-> TRUE, v |-> 0]
Num(n) == [nan |-> FALSE, v |-> n]

Digits == <<"0", "1", "2", "3", "4", "5", "6", "7", "8", "9">>

CharAt(s, i) == SubSeq(s, i, i)

IsDigit(c) == \E d \in 1..10 : Digits[d] = c

DigitValue(c) == (CHOOSE d \in 1..10 : Digits[d] = c) - 1

IsSpace(c) == c = " "

RECURSIVE TrimLeft(_)
TrimLeft(s) ==
    IF Len(s) > 0 /\ IsSpace(CharAt(s, 1)) THEN TrimLeft(SubSeq(s, 2, Len(s))) ELSE s

RECURSIVE TrimRight(_)
TrimRight(s) ==
    IF Len(s) > 0 /\ IsSpace(CharAt(s, Len(s))) THEN TrimRight(SubSeq(s, 1, Len(s) - 1)) ELSE s

RECURSIVE DecimalValue(_)
DecimalValue(s) ==
    IF Len(s) = 0 THEN 0
    ELSE 10 * DecimalValue(SubSeq(s, 1, Len(s) - 1)) + DigitValue(CharAt(s, Len(s)))

\* Number(text) for texts of digits, blanks and letters: blanks are trimmed, the
\* empty text is 0, a run of decimal digits is its value, anything else is NaN.
StringToNumber(s) ==
    LET t == TrimRight(TrimLeft(s)) IN
    IF Len(t) = 0 THEN Num(0)
    ELSE IF \A i \in 1..Len(t) : IsDigit(CharAt(t, i)) THEN Num(DecimalValue(t))
    ELSE NaN

RECURSIVE NumberToString(_)
NumberToString(n) ==
    IF n < 10 THEN Digits[n + 1] ELSE NumberToString(n \div 10) \o Digits[(n % 10) + 1]

\* text.includes(part)
Includes(text, part) ==
    \E i \in 1..(Len(text) - Len(part) + 1) : SubSeq(text, i, i + Len(part) - 1) = part

----------------------------------------------------------------------------
(* Configuration, lines 47-50: Number(process.env.X || default) *)

DEFAULT_REQUEST_TIMEOUT_MS == 20000
DEFAULT_MAX_RETRIES == 4
DEFAULT_BACKOFF_BASE_MS == 400
DEFAULT_PROXY_MARK_DOWN_MS == 45000

Settings == {"REQUEST_TIMEOUT_MS", "MAX_RETRIES", "BACKOFF_BASE_MS", "PROXY_MARK_DOWN_MS"}

DefaultOf(name) ==
    CASE name = "REQUEST_TIMEOUT_MS" -> DEFAULT_REQUEST_TIMEOUT_MS
      [] name = "MAX_RETRIES" -> DEFAULT_MAX_RETRIES
      [] name = "BACKOFF_BASE_MS" -> DEFAULT_BACKOFF_BASE_MS
      [] name = "PROXY_MARK_DOWN_MS" -> DEFAULT_PROXY_MARK_DOWN_MS

\* process.env.X is a string or undefined; undefined and "" are falsy, so the
\* default (a number) is taken; any other text goes through Number().
NumberOrDefault(raw, default) ==
    IF raw = undefined \/ raw = "" THEN Num(default) ELSE StringToNumber(raw)

LoadConfig(e) == [name \in Settings |-> NumberOrDefault(e[name], DefaultOf(name))]

\* before lines 47-50 have run
Unloaded == [name \in Settings |-> [nan |-> TRUE, v |-> -1]]

REQUEST_TIMEOUT_MS == config["REQUEST_TIMEOUT_MS"].v
MAX_RETRIES == config["MAX_RETRIES"].v
BACKOFF_BASE_MS == config["BACKOFF_BASE_MS"].v
PROXY_MARK_DOWN_MS == config["PROXY_MARK_DOWN_MS"].v

----------------------------------------------------------------------------
(* The selector and the health map, lines 52-75 *)

now == clock

\* Mutant of IsHealthy: the window closes one millisecond early.
IsHealthyEarly(health, candidate, t) ==
    \/ candidate \notin DOMAIN health
    \/ health[candidate].downUntil <= t + 1

\* !st || (st.downUntil || 0) <= now()
IsHealthy(health, candidate, t) ==
    \/ candidate \notin DOMAIN health
    \/ health[candidate].downUntil <= t

\* The loop of pickNextProxy from iteration i on, with the cursor at idx.
\* index is the cursor the call leaves behind, examined the entries it looked at.
RECURSIVE PickScan(_, _, _, _, _)
PickScan(pool, health, idx, t, i) ==
    IF i >= Len(pool) THEN [result |-> null, index |-> idx, examined |-> i]
    ELSE LET next == (idx + 1) % Len(pool)
             candidate == pool[next + 1]
         IN  IF IsHealthy(health, candidate, t)
             THEN [result |-> candidate, index |-> next, examined |-> i + 1]
             ELSE PickScan(pool, health, next, t, i + 1)

\* Mutant of pickNextProxy: the scan starts from the head of the pool, not
\* from the cursor.
pickNextProxyFromHead(pool, health, idx, t) ==
    IF Len(pool) = 0 THEN [result |-> null, index |-> idx, examined |-> 0]
    ELSE PickScan(pool, health, -1, t, 0)

\* Mutant of pickNextProxy: with every entry down the first entry is returned.
pickNextProxyNeverNull(pool, health, idx, t) ==
    IF Len(pool) = 0 THEN [result |-> null, index |-> idx, examined |-> 0]
    ELSE LET sel == PickScan(pool, health, idx, t, 0)
         IN  IF sel.result = null THEN [sel EXCEPT !.result = pool[1]] ELSE sel

pickNextProxy(pool, health, idx, t) ==
    IF Len(pool) = 0 THEN [result |-> null, index |-> idx, examined |-> 0]
    ELSE PickScan(pool, health, idx, t, 0)

\* Mutant of markProxyDown: the down-until timestamp does not start from now.
markProxyDownFromZero(health, proxyUrl, t) ==
    [u \in DOMAIN health \cup {proxyUrl} |->
        IF u = proxyUrl THEN [downUntil |-> PROXY_MARK_DOWN_MS] ELSE health[u]]

markProxyDown(health, proxyUrl, t) ==
    [u \in DOMAIN health \cup {proxyUrl} |->
        IF u = proxyUrl THEN [downUntil |-> t + PROXY_MARK_DOWN_MS] ELSE health[u]]

----------------------------------------------------------------------------
(* JSON.parse for the texts the model sends: {} or one "key":value member   *)
(* whose value is a quoted string or a run of digits; anything else throws. *)

Quote == "\""

ParseValue(t) ==
    IF Len(t) >= 2 /\ CharAt(t, 1) = Quote /\ CharAt(t, Len(t)) = Quote
          /\ ~Includes(SubSeq(t, 2, Len(t) - 1), Quote)
    THEN [ok |-> TRUE, value |-> SubSeq(t, 2, Len(t) - 1)]
    ELSE IF Len(t) >= 1 /\ \A i \in 1..Len(t) : IsDigit(CharAt(t, i))
    THEN [ok |-> TRUE, value |-> t]
    ELSE [ok |-> FALSE, value |-> undefined]

\* Mutant of JSONparse: a text that cannot be parsed is taken as {}.
JSONparseLenient(text) == [ok |-> TRUE, key |-> undefined, value |-> undefined]

JSONparse(text) ==
    LET failed == [ok |-> FALSE, key |-> undefined, value |-> undefined]
        n == Len(text)
    IN  IF text = "{}" THEN [ok |-> TRUE, key |-> undefined, value |-> undefined]
        ELSE IF n < 6 \/ CharAt(text, 1) # "{" \/ CharAt(text, 2) # Quote \/ CharAt(text, n) # "}"
        THEN failed
        ELSE LET seps == {i \in 3..(n - 2) : SubSeq(text, i, i + 1) = Quote \o ":"}
             IN  IF seps = {} THEN failed
                 ELSE LET sep == CHOOSE i \in seps : \A j \in seps : i <= j
                          val == ParseValue(SubSeq(text, sep + 2, n - 1))
                      IN  IF val.ok
                          THEN [ok |-> TRUE, key |-> SubSeq(text, 3, sep - 1), value |-> val.value]
                          ELSE failed

\* const { targetUrl } = payload
TargetUrlOf(payload) == IF payload.key = "targetUrl" THEN payload.value ELSE undefined

\* !x for a string or undefined
Falsy(x) == x = undefined \/ x = null \/ x = ""

----------------------------------------------------------------------------
(* Inputs *)

HttpMethods == {"OPTIONS", "GET", "POST"}

TargetUrl == "http://t/"

EventBodies ==
    { undefined,
      "{oops",
      "{" \o Quote \o "method" \o Quote \o ":" \o Quote \o "GET" \o Quote \o "}",
      "{" \o Quote \o "targetUrl" \o Quote \o ":" \o Quote \o Quote \o "}",
      "{" \o Quote \o "targetUrl" \o Quote \o ":" \o Quote \o TargetUrl \o Quote \o "}" }

\* The event body that is not JSON, and the one that asks for a target.
BadJsonBody == "{oops"
GoodBody == "{\"targetUrl\":\"http://t/\"}"

Statuses == {200, 404, 503}

ContentTypes == {"application/json; charset=utf-8", "text/plain"}

UpstreamBodies == {"{" \o Quote \o "x" \o Quote \o ":1}", "oops"}

UpstreamResponses == [status : Statuses, contentType : ContentTypes, body : UpstreamBodies]

ProxyUrls == <<"https://p1/?url=", "https://p2/?url=", "https://p3/?url=",
               "https://p4/?url=", "https://p5/?url=">>

\* Pools of 1..MaxPool entries; an entry may repeat an earlier one (the list is
\* taken as configured, lines 32-45). Entry i is one of the first i urls.
Pools ==
    UNION { { [i \in 1..n |-> ProxyUrls[f[i]]] : f \in { g \in [1..n -> 1..n] : \A i \in 1..n : g[i] <= i } }
            : n \in 1..MaxPool }

Requests == 1..MaxRequests

\* The environment of Spec: every setting supplied, as small numbers of
\* milliseconds, so that timeouts, waits and mark-downs end within MaxClock.
RunEnv ==
    [name \in Settings |->
        CASE name = "REQUEST_TIMEOUT_MS" -> "1"
          [] name = "MAX_RETRIES" -> NumberToString(RetriesSetting)
          [] name = "BACKOFF_BASE_MS" -> "1"
          [] name = "PROXY_MARK_DOWN_MS" -> NumberToString(MarkDownSetting)]

----------------------------------------------------------------------------
(* Responses of the handler *)

JsonCorsHeaders ==
    {<<"Content-Type", "application/json">>, <<"Access-Control-Allow-Origin", "*">>}

PreflightHeaders ==
    {<<"Access-Control-Allow-Origin", "*">>,
     <<"Access-Control-Allow-Methods", "POST,OPTIONS">>,
     <<"Access-Control-Allow-Headers", "Content-Type">>}

NoHeaders == {}

\* body: ''
EmptyBody == << >>

NoResponse == [none |-> TRUE]
NoError == [none |-> TRUE]

Response(statusCode, headers, body) ==
    [statusCode |-> statusCode, headers |-> headers, body |-> body]

IdleRequest ==
    [ pc |-> "idle", httpMethod |-> "", targetUrl |-> "",
      attempt |-> 0, proxy |-> null, finalUrl |-> "", start |-> 0, latency |-> 0,
      status |-> 0, body |-> "", lastError |-> NoError, waitUntil |-> 0,
      response |-> NoResponse,
      \* history of the invocation
      fetches |-> 0, picks |-> 0, waits |-> 0, marks |-> 0,
      examined |-> 0, allDown |-> FALSE, only5xx |-> TRUE, first |-> 0, okAt |-> -1,
      unread |-> FALSE, eventBody |-> undefined, delays |-> << >>,
      awaited |-> 0 ]

----------------------------------------------------------------------------
(* The handler, lines 84-198. A step runs the code from one await to the   *)
(* next: JavaScript runs each of these stretches without interleaving.     *)

Is5xx(status) == status >= 500 /\ status < 600

\* res.ok
IsOk(status) == status >= 200 /\ status < 300

UseProxy(q) == ~Falsy(q.proxy)

AllHealthy(health, t) == \A i \in 1..Len(PROXIES) : IsHealthy(health, PROXIES[i], t)

\* the last n entries of a history
Latest(h, n) == IF Len(h) <= n THEN h ELSE SubSeq(h, Len(h) - n + 1, Len(h))

AllDown(health, t) == \A i \in 1..Len(PROXIES) : ~IsHealthy(health, PROXIES[i], t)

\* return <response>: the invocation ends, the shared state stays as it is
Return(r, q, response) ==
    /\ req' = [req EXCEPT ![r] = [q EXCEPT !.pc = "done", !.response = response,
                                            !.start = 0, !.latency = 0, !.waitUntil = 0]]
    /\ UNCHANGED <<proxyHealth, proxyIndex, markedAt, picked>>

\* Mutant of StartAttempt: the loop condition is attempt <= MAX_RETRIES.
StartAttemptOneMore(r, q) ==
    IF q.attempt <= MAX_RETRIES
    THEN LET sel == pickNextProxy(PROXIES, proxyHealth, proxyIndex, now)
             proxy == sel.result
             useProxy == ~Falsy(proxy)
             finalUrl == IF useProxy THEN proxy \o q.targetUrl ELSE q.targetUrl
         IN  /\ proxyIndex' = sel.index
             /\ req' = [req EXCEPT ![r] =
                    [q EXCEPT !.pc = "fetch", !.proxy = proxy, !.finalUrl = finalUrl,
                              !.start = now, !.picks = @ + 1, !.fetches = @ + 1,
                              !.awaited = @ + 1,
                              !.examined = sel.examined,
                              !.allDown = AllDown(proxyHealth, now)]]
             /\ picked' = Latest(Append(picked, [result |-> proxy, index |-> sel.index,
                                                 allHealthy |-> AllHealthy(proxyHealth, now)]),
                                  Len(PROXIES))
             /\ UNCHANGED <<proxyHealth, markedAt>>
    ELSE Return(r, q, Response(502, JsonCorsHeaders,
                               [error |-> "All attempts failed", lastError |-> q.lastError]))

\* Lines 112-132 (and 184-188 when the loop condition fails): the loop
\* condition, the selection, the url, and the upstream call being issued.
StartAttempt(r, q) ==
    IF q.attempt < MAX_RETRIES
    THEN LET sel == pickNextProxy(PROXIES, proxyHealth, proxyIndex, now)
             proxy == sel.result
             useProxy == ~Falsy(proxy)
             finalUrl == IF useProxy THEN proxy \o q.targetUrl ELSE q.targetUrl
         IN  /\ proxyIndex' = sel.index
             /\ req' = [req EXCEPT ![r] =
                    [q EXCEPT !.pc = "fetch", !.proxy = proxy, !.finalUrl = finalUrl,
                              !.start = now, !.picks = @ + 1, !.fetches = @ + 1,
                              !.awaited = @ + 1,
                              !.examined = sel.examined,
                              !.allDown = AllDown(proxyHealth, now)]]
             /\ picked' = Latest(Append(picked, [result |-> proxy, index |-> sel.index,
                                                 allHealthy |-> AllHealthy(proxyHealth, now)]),
                                  Len(PROXIES))
             /\ UNCHANGED <<proxyHealth, markedAt>>
    ELSE Return(r, q, Response(502, JsonCorsHeaders,
                               [error |-> "All attempts failed", lastError |-> q.lastError]))

\* Mutant of MarkAndWait: no wait after the failure of the last attempt, the
\* 502 is returned at once.
MarkAndWaitNotAfterLast(r, q, mark) ==
    /\ proxyHealth' = IF mark THEN markProxyDown(proxyHealth, q.proxy, now) ELSE proxyHealth
    /\ markedAt' = IF mark THEN [u \in DOMAIN markedAt \cup {q.proxy} |->
                                    IF u = q.proxy THEN now ELSE markedAt[u]]
                   ELSE markedAt
    /\ req' = [req EXCEPT ![r] =
           IF q.attempt + 1 < MAX_RETRIES
           THEN [q EXCEPT !.pc = "backoff", !.waitUntil = now + BACKOFF_BASE_MS * 2^q.attempt,
                          !.waits = @ + 1, !.marks = IF mark THEN @ + 1 ELSE @,
                          !.delays = Append(@, BACKOFF_BASE_MS * 2^q.attempt)]
           ELSE [q EXCEPT !.pc = "done", !.start = 0, !.latency = 0, !.waitUntil = 0,
                          !.marks = IF mark THEN @ + 1 ELSE @,
                          !.response = Response(502, JsonCorsHeaders,
                                                [error |-> "All attempts failed",
                                                 lastError |-> q.lastError])]]
    /\ UNCHANGED <<proxyIndex, picked>>

\* Mutant of MarkAndWait: the wait does not grow with the attempt.
MarkAndWaitFlat(r, q, mark) ==
    /\ proxyHealth' = IF mark THEN markProxyDown(proxyHealth, q.proxy, now) ELSE proxyHealth
    /\ markedAt' = IF mark THEN [u \in DOMAIN markedAt \cup {q.proxy} |->
                                    IF u = q.proxy THEN now ELSE markedAt[u]]
                   ELSE markedAt
    /\ req' = [req EXCEPT ![r] =
           [q EXCEPT !.pc = "backoff", !.waitUntil = now + BACKOFF_BASE_MS,
                     !.waits = @ + 1, !.marks = IF mark THEN @ + 1 ELSE @,
                     !.delays = Append(@, BACKOFF_BASE_MS)]]
    /\ UNCHANGED <<proxyIndex, picked>>

\* markProxyDown(proxy) when mark holds, then the backoff timer is set
\* (lines 142-143 and 175-179); `continue` follows when the timer fires.
MarkAndWait(r, q, mark) ==
    /\ proxyHealth' = IF mark THEN markProxyDown(proxyHealth, q.proxy, now) ELSE proxyHealth
    /\ markedAt' = IF mark THEN [u \in DOMAIN markedAt \cup {q.proxy} |->
                                    IF u = q.proxy THEN now ELSE markedAt[u]]
                   ELSE markedAt
    /\ req' = [req EXCEPT ![r] =
           [q EXCEPT !.pc = "backoff", !.waitUntil = now + BACKOFF_BASE_MS * 2^q.attempt,
                     !.waits = @ + 1, !.marks = IF mark THEN @ + 1 ELSE @,
                     !.delays = Append(@, BACKOFF_BASE_MS * 2^q.attempt)]]
    /\ UNCHANGED <<proxyIndex, picked>>

\* catch (err), lines 173-181
Caught(r, q, message) ==
    MarkAndWait(r, [q EXCEPT !.lastError = [error |-> message, proxy |-> q.proxy,
                                            attempt |-> q.attempt],
                             !.only5xx = FALSE],
                UseProxy(q))

\* Mutant of HandlerStart: the proxy is selected before the body is validated,
\* so a request without a targetUrl moves the cursor.
HandlerStartSelectsFirst(r, httpMethod, body) ==
    /\ req[r].pc \in {"idle", "done"}
    /\ LET q == [IdleRequest EXCEPT !.httpMethod = httpMethod,
                                    !.eventBody = IF httpMethod = "POST" THEN body
                                                  ELSE undefined]
           payload == JSONparse(IF Falsy(body) THEN "{}" ELSE body)
           targetUrl == TargetUrlOf(payload)
       IN  IF httpMethod = "OPTIONS"
           THEN Return(r, q, Response(204, PreflightHeaders, EmptyBody))
           ELSE IF httpMethod # "POST"
           THEN Return(r, q, Response(405, NoHeaders, [error |-> "Only POST allowed"]))
           ELSE IF ~payload.ok
           THEN Return(r, q, Response(500, JsonCorsHeaders,
                                      [error |-> "Internal server error",
                                       message |-> "SyntaxError"]))
           ELSE IF Falsy(targetUrl)
           THEN /\ req' = [req EXCEPT ![r] =
                       [q EXCEPT !.pc = "done",
                                 !.response = Response(400, NoHeaders,
                                                       [error |-> "targetUrl required"])]]
                /\ proxyIndex' = pickNextProxy(PROXIES, proxyHealth, proxyIndex, now).index
                /\ UNCHANGED <<proxyHealth, markedAt, picked>>
           ELSE StartAttempt(r, [q EXCEPT !.targetUrl = targetUrl])
    /\ UNCHANGED <<live, env, config, PROXIES, clock>>

\* An invocation arrives: lines 85-108, and the first pass of the loop.
HandlerStart(r, httpMethod, body) ==
    /\ req[r].pc \in {"idle", "done"}
    /\ LET q == [IdleRequest EXCEPT !.httpMethod = httpMethod,
                                    !.eventBody = IF httpMethod = "POST" THEN body
                                                  ELSE undefined]
           payload == JSONparse(IF Falsy(body) THEN "{}" ELSE body)
           targetUrl == TargetUrlOf(payload)
       IN  IF httpMethod = "OPTIONS"
           THEN Return(r, q, Response(204, PreflightHeaders, EmptyBody))
           ELSE IF httpMethod # "POST"
           THEN Return(r, q, Response(405, NoHeaders, [error |-> "Only POST allowed"]))
           ELSE IF ~payload.ok
           THEN Return(r, q, Response(500, JsonCorsHeaders,
                                      [error |-> "Internal server error",
                                       message |-> "SyntaxError"]))
           ELSE IF Falsy(targetUrl)
           THEN Return(r, q, Response(400, NoHeaders, [error |-> "targetUrl required"]))
           ELSE StartAttempt(r, [q EXCEPT !.targetUrl = targetUrl])
    /\ UNCHANGED <<live, env, config, PROXIES, clock>>

\* fetch resolves before the timer of fetchWithTimeout: lines 132-137 or 156-165,
\* up to the await of the body.
FetchResolve(r, res) ==
    /\ req[r].pc = "fetch"
    /\ now - req[r].start <= REQUEST_TIMEOUT_MS
    /\ LET q == [req[r] EXCEPT !.latency = now - req[r].start, !.status = res.status,
                               !.awaited = @ - 1,
                               !.body = res.body,
                               !.only5xx = @ /\ Is5xx(res.status),
                               !.first = IF req[r].attempt = 0 THEN res.status ELSE @,
                               !.okAt = IF IsOk(res.status) THEN req[r].attempt ELSE @]
       IN  req' = [req EXCEPT ![r] =
               [q EXCEPT !.pc = IF ~IsOk(res.status) THEN "errText"
                                ELSE IF Includes(res.contentType, "application/json")
                                THEN "okJson" ELSE "okText"]]
    /\ UNCHANGED <<live, env, config, PROXIES, proxyHealth, proxyIndex, clock, markedAt, picked>>

\* fetch rejects (connection failure) before the timer: the call has finished
FetchReject(r) ==
    /\ req[r].pc = "fetch"
    /\ now - req[r].start <= REQUEST_TIMEOUT_MS
    /\ Caught(r, [req[r] EXCEPT !.awaited = @ - 1], "request failed")
    /\ UNCHANGED <<live, env, config, PROXIES, clock>>

\* the timer of fetchWithTimeout fires first: reject(new Error('timeout')); the
\* handler stops waiting for the call, which stays open (it is abandoned)
FetchTimeout(r) ==
    /\ req[r].pc = "fetch"
    /\ now - req[r].start >= REQUEST_TIMEOUT_MS
    /\ Caught(r, [req[r] EXCEPT !.awaited = @ - 1], "timeout")
    /\ UNCHANGED <<live, env, config, PROXIES, clock>>

\* Mutant of ErrorBodyRead: every error status is retried when a proxy was used.
ErrorBodyReadRetryAll(r, readable) ==
    /\ req[r].pc = "errText"
    /\ LET text == IF readable THEN req[r].body ELSE "<no body>"
           q == [req[r] EXCEPT !.lastError = [status |-> req[r].status, text |-> text,
                                              proxy |-> req[r].proxy,
                                              latency |-> req[r].latency],
                               !.unread = ~readable]
       IN  IF UseProxy(q)
           THEN MarkAndWait(r, q, TRUE)
           ELSE Return(r, q, Response(q.status, JsonCorsHeaders,
                                      [error |-> "Upstream returned error", details |-> text]))
    /\ UNCHANGED <<live, env, config, PROXIES, clock>>

\* res.text().catch(()=>'<no body>') settles, lines 137-152
ErrorBodyRead(r, readable) ==
    /\ req[r].pc = "errText"
    /\ LET text == IF readable THEN req[r].body ELSE "<no body>"
           q == [req[r] EXCEPT !.lastError = [status |-> req[r].status, text |-> text,
                                              proxy |-> req[r].proxy,
                                              latency |-> req[r].latency],
                               !.unread = ~readable]
       IN  IF UseProxy(q) /\ Is5xx(q.status)
           THEN MarkAndWait(r, q, TRUE)
           ELSE Return(r, q, Response(q.status, JsonCorsHeaders,
                                      [error |-> "Upstream returned error", details |-> text]))
    /\ UNCHANGED <<live, env, config, PROXIES, clock>>

\* res.json() settles, lines 158-163: a body that cannot be read or is not
\* JSON throws inside the try block.
JsonBodyRead(r, readable) ==
    /\ req[r].pc = "okJson"
    /\ LET parsed == JSONparse(req[r].body)
       IN  IF ~readable
           THEN Caught(r, req[r], "body read failed")
           ELSE IF ~parsed.ok
           THEN Caught(r, req[r], "invalid json response body")
           ELSE Return(r, req[r], Response(200, JsonCorsHeaders,
                    [success |-> TRUE, proxy |-> req[r].proxy, latency |-> req[r].latency,
                     data |-> [key |-> parsed.key, value |-> parsed.value]]))
    /\ UNCHANGED <<live, env, config, PROXIES, clock>>

\* res.text() settles, lines 165-170
TextBodyRead(r, readable) ==
    /\ req[r].pc = "okText"
    /\ IF readable
       THEN Return(r, req[r], Response(200, JsonCorsHeaders,
                [success |-> TRUE, proxy |-> req[r].proxy, latency |-> req[r].latency,
                 data |-> req[r].body]))
       ELSE Caught(r, req[r], "body read failed")
    /\ UNCHANGED <<live, env, config, PROXIES, clock>>

\* Mutant of BackoffDone: the next pass of the loop also starts while the call
\* of the current pass is still awaited.
BackoffDoneNoAwait(r) ==
    /\ req[r].pc \in {"backoff", "fetch"}
    /\ now >= req[r].waitUntil
    /\ StartAttempt(r, [req[r] EXCEPT !.attempt = @ + 1])
    /\ UNCHANGED <<live, env, config, PROXIES, clock>>

\* the backoff timer fires: continue, attempt++, and the next pass of the loop
BackoffDone(r) ==
    /\ req[r].pc = "backoff"
    /\ now >= req[r].waitUntil
    /\ StartAttempt(r, [req[r] EXCEPT !.attempt = @ + 1])
    /\ UNCHANGED <<live, env, config, PROXIES, clock>>

\* time passes
Tick ==
    /\ clock < MaxClock
    /\ clock' = clock + 1
    /\ UNCHANGED <<live, env, config, PROXIES, proxyHealth, proxyIndex, req, markedAt, picked>>

\* Module load, lines 47-50
ModuleLoad ==
    /\ config = Unloaded
    /\ config' = LoadConfig(env)
    /\ UNCHANGED <<live, env, PROXIES, proxyHealth, proxyIndex, clock, req, markedAt, picked>>

Init ==
    /\ live = {1}
    /\ env = RunEnv
    /\ config = LoadConfig(env)
    /\ PROXIES \in Pools
    /\ proxyHealth = << >>
    /\ proxyIndex = -1
    /\ clock = 0
    /\ req = [r \in Requests |-> IdleRequest]
    /\ markedAt = << >>
    /\ picked = << >>

Next ==
    \/ \E r \in live, m \in HttpMethods, b \in EventBodies : HandlerStart(r, m, b)
    \/ \E r \in live, res \in UpstreamResponses : FetchResolve(r, res)
    \/ \E r \in live : FetchReject(r)
    \/ \E r \in live : FetchTimeout(r)
    \/ \E r \in live, readable \in BOOLEAN : ErrorBodyRead(r, readable)
    \/ \E r \in live, readable \in BOOLEAN : JsonBodyRead(r, readable)
    \/ \E r \in live, readable \in BOOLEAN : TextBodyRead(r, readable)
    \/ \E r \in live : BackoffDone(r)
    \/ Tick

Spec == Init /\ [][Next]_vars

\* Two invocations in progress in the same container: their steps interleave
\* at the awaits of the handler and share PROXIES, proxyHealth and proxyIndex.
ConcurrentRequests == {1, 2}

\* The environment of SpecConcurrent: one attempt per request.
ConcurrentEnv == [RunEnv EXCEPT !["MAX_RETRIES"] = "1"]

\* The container was loaded at a time that leaves room for one mark-down to
\* expire before MaxClock.
InitConcurrent ==
    /\ live = ConcurrentRequests
    /\ env = ConcurrentEnv
    /\ config = LoadConfig(env)
    /\ PROXIES \in Pools
    /\ proxyHealth = << >>
    /\ proxyIndex = -1
    /\ clock = MaxClock - MarkDownSetting
    /\ req = [r \in Requests |-> IdleRequest]
    /\ markedAt = << >>
    /\ picked = << >>

\* Each of the two invocations is a POST that asks for the target; the steps
\* after its arrival are those of Next.
NextConcurrent ==
    \/ \E r \in live : req[r].pc = "idle" /\ HandlerStart(r, "POST", GoodBody)
    \/ \E r \in live, res \in UpstreamResponses : FetchResolve(r, res)
    \/ \E r \in live : FetchReject(r)
    \/ \E r \in live : FetchTimeout(r)
    \/ \E r \in live, readable \in BOOLEAN : ErrorBodyRead(r, readable)
    \/ \E r \in live, readable \in BOOLEAN : JsonBodyRead(r, readable)
    \/ \E r \in live, readable \in BOOLEAN : TextBodyRead(r, readable)
    \/ \E r \in live : BackoffDone(r)
    \/ Tick

SpecConcurrent == InitConcurrent /\ [][NextConcurrent]_vars

\* The environment as it may be set: absent, empty, numeric (with or without
\* blanks around it) or not numeric.
EnvTexts == {undefined, "", "7", " 12 ", "abc"}

InitConfig ==
    /\ live = {}
    /\ env \in [Settings -> EnvTexts]
    /\ config = Unloaded
    /\ PROXIES \in Pools
    /\ proxyHealth = << >>
    /\ proxyIndex = -1
    /\ clock = 0
    /\ req = [r \in Requests |-> IdleRequest]
    /\ markedAt = << >>
    /\ picked = << >>

NextConfig == ModuleLoad

SpecConfig == InitConfig /\ [][NextConfig]_vars

----------------------------------------------------------------------------
(* Properties *)

Answered(r) == req[r].pc = "done"

ErrorOf(response) == IF "error" \in DOMAIN response.body THEN response.body.error ELSE ""

Is4xx(status) == status >= 400 /\ status < 500

\* C1: a POST with a targetUrl whose upstream responses are all 5xx is answered
\* only after exactly MAX_RETRIES upstream attempts, whatever the pool size and
\* the health of the pool when it starts.
C1_ExactlyMaxRetriesOn5xx ==
    \A r \in live :
        (Answered(r) /\ req[r].fetches > 0 /\ req[r].only5xx) => req[r].fetches = MAX_RETRIES

\* C2: an upstream 5xx is never handed back as the terminal 'Upstream returned
\* error' response carrying the upstream status, with or without a proxy.
C2_5xxNeverTerminal ==
    \A r \in live :
        (Answered(r) /\ ErrorOf(req[r].response) = "Upstream returned error")
            => ~Is5xx(req[r].response.statusCode)

\* the texts that are a number: decimal digits, blanks around them allowed
IsNumericText(raw) ==
    /\ raw # undefined
    /\ LET t == TrimRight(TrimLeft(raw))
       IN  Len(t) > 0 /\ \A i \in 1..Len(t) : IsDigit(CharAt(t, i))

\* C3: each of the four settings is the supplied value when the environment
\* gives a valid number, and the documented default when the value is absent
\* or invalid, so the attempt bound is always a number.
C3_ValidOrDefault ==
    config # Unloaded =>
        \A name \in Settings :
            /\ ~config[name].nan
            /\ config[name].v = IF IsNumericText(env[name])
                                THEN DecimalValue(TrimRight(TrimLeft(env[name])))
                                ELSE DefaultOf(name)

\* C4: every response to a request whose method is not OPTIONS carries
\* Content-Type: application/json and Access-Control-Allow-Origin: *.
C4_JsonCorsHeadersAlways ==
    \A r \in live :
        (Answered(r) /\ req[r].httpMethod # "OPTIONS")
            => JsonCorsHeaders \subseteq req[r].response.headers

\* C5 as stated: a 4xx on the first attempt is answered with that status and the
\* upstream body as details after exactly one attempt, with no backoff wait and
\* no second selection.
C5_FirstClientErrorVerbatim ==
    \A r \in live :
        Is4xx(req[r].first) =>
            /\ req[r].fetches = 1 /\ req[r].picks = 1 /\ req[r].waits = 0
            /\ req[r].pc \in {"errText", "done"}
            /\ Answered(r) =>
                  /\ req[r].response.statusCode = req[r].first
                  /\ ErrorOf(req[r].response) = "Upstream returned error"
                  /\ req[r].response.body.details = req[r].body

\* C5 amended: as C5, with details being the upstream body when it could be
\* read and the text '<no body>' when reading it failed.
C5_FirstClientErrorOnce ==
    \A r \in live :
        Is4xx(req[r].first) =>
            /\ req[r].fetches = 1 /\ req[r].picks = 1 /\ req[r].waits = 0
            /\ req[r].pc \in {"errText", "done"}
            /\ Answered(r) =>
                  /\ req[r].response.statusCode = req[r].first
                  /\ ErrorOf(req[r].response) = "Upstream returned error"
                  /\ req[r].response.body.details =
                         IF req[r].unread THEN "<no body>" ELSE req[r].body

C5_Witness ==
    \E r \in live :
        /\ Answered(r) /\ req[r].first = 404 /\ req[r].fetches = 1
        /\ req[r].response.statusCode = 404
        /\ req[r].response.body.details = req[r].body

\* C6: once an attempt has completed in time with a 2xx status, the request
\* makes no further attempt and marks no proxy down, and it ends with a
\* status-200 success response naming the proxy of that attempt, whatever the
\* content type and the body.
C6_SuccessIsTerminal ==
    \A r \in live :
        req[r].okAt >= 0 =>
            /\ req[r].pc \in {"okJson", "okText", "done"}
            /\ req[r].fetches = req[r].okAt + 1
            /\ Answered(r) =>
                  /\ req[r].response.statusCode = 200
                  /\ req[r].response.body.success
                  /\ req[r].response.body.proxy = req[r].proxy

\* C7: a request is answered 502 'All attempts failed' exactly when its attempt
\* counter reached MAX_RETRIES without a terminal outcome; the lastError of
\* that answer is the outcome recorded for the final attempt; and no request
\* makes more than MAX_RETRIES upstream attempts.
C7_GatewayFailureIffExhausted ==
    \A r \in live :
        /\ req[r].fetches <= MAX_RETRIES
        /\ Answered(r) =>
              /\ ErrorOf(req[r].response) = "All attempts failed"
                     <=> req[r].attempt = MAX_RETRIES
              /\ ErrorOf(req[r].response) = "All attempts failed" =>
                    LET last == req[r].response.body.lastError IN
                    /\ req[r].response.statusCode = 502
                    /\ req[r].fetches = MAX_RETRIES
                    /\ last # NoError
                    /\ last.proxy = req[r].proxy
                    /\ "attempt" \in DOMAIN last => last.attempt = MAX_RETRIES - 1
                    /\ "status" \in DOMAIN last =>
                          /\ last.status = req[r].status
                          /\ Is5xx(last.status)
                          /\ last.text = IF req[r].unread THEN "<no body>" ELSE req[r].body

C7_Witness ==
    \E r \in live :
        /\ Answered(r)
        /\ req[r].response.statusCode = 502
        /\ ErrorOf(req[r].response) = "All attempts failed"
        /\ req[r].fetches = MAX_RETRIES
        /\ "status" \in DOMAIN req[r].response.body.lastError

\* the latest Len(PROXIES) calls of pickNextProxy, each made with every proxy healthy
FullHealthyRound ==
    /\ Len(picked) = Len(PROXIES)
    /\ \A i \in 1..Len(picked) : picked[i].allHealthy

NoDuplicates(pool) == \A i, j \in 1..Len(pool) : i # j => pool[i] # pool[j]

\* C8 as stated: with every proxy healthy, any N consecutive calls of
\* pickNextProxy return N pairwise different proxies.
C8_RoundOfDifferentProxies ==
    FullHealthyRound =>
        \A i, j \in 1..Len(picked) : i # j => picked[i].result # picked[j].result

\* C8 amended: with every proxy healthy, any N consecutive calls of
\* pickNextProxy return each pool position exactly once; the proxies returned
\* are pairwise different when no url occurs twice in the pool.
C8_RoundVisitsEachPosition ==
    FullHealthyRound =>
        /\ {picked[i].index : i \in 1..Len(picked)} = 0..(Len(PROXIES) - 1)
        /\ \A i \in 1..Len(picked) : picked[i].result = PROXIES[picked[i].index + 1]
        /\ NoDuplicates(PROXIES) =>
              \A i, j \in 1..Len(picked) : i # j => picked[i].result # picked[j].result

C8_Witness ==
    /\ FullHealthyRound
    /\ Len(PROXIES) >= 2
    /\ NoDuplicates(PROXIES)
    /\ picked[1].index # 0
    /\ \A i, j \in 1..Len(picked) : i # j => picked[i].result # picked[j].result

\* a step in which invocation r calls pickNextProxy
Selects(r) == req[r].pc # "fetch" /\ req'[r].pc = "fetch"

\* C9: after markProxyDown(p) at time t, no call of pickNextProxy made before
\* t + PROXY_MARK_DOWN_MS returns p.
C9_DownUntilExpiry ==
    [][\A r \in live :
          (Selects(r) /\ req'[r].proxy \in DOMAIN markedAt)
              => clock >= markedAt[req'[r].proxy] + PROXY_MARK_DOWN_MS]_vars

\* C9, second half: a call made at t + PROXY_MARK_DOWN_MS returns p again, its
\* health record being the one markProxyDown left.
C9_Witness ==
    \E r \in live :
        /\ req[r].pc = "fetch" /\ req[r].start = clock
        /\ req[r].proxy \in DOMAIN markedAt
        /\ proxyHealth[req[r].proxy].downUntil = markedAt[req[r].proxy] + PROXY_MARK_DOWN_MS
        /\ clock = markedAt[req[r].proxy] + PROXY_MARK_DOWN_MS

\* C10: when every proxy of the pool is down at the time of the call,
\* pickNextProxy looks at each pool entry once and returns null, and the
\* attempt that follows goes to the targetUrl as given.
C10_AllDownGoesDirect ==
    \A r \in live :
        (req[r].fetches > 0 /\ req[r].allDown) =>
            /\ req[r].proxy = null
            /\ req[r].examined = Len(PROXIES)
            /\ req[r].finalUrl = req[r].targetUrl

C10_Witness ==
    \E r \in live :
        /\ req[r].pc = "fetch" /\ req[r].allDown
        /\ req[r].proxy = null /\ req[r].finalUrl = TargetUrl
        /\ Len(PROXIES) >= 2

\* The event bodies that carry no targetUrl, or an empty one.
NoTargetBodies == {undefined, "{\"method\":\"GET\"}", "{\"targetUrl\":\"\"}"}

\* Invocation r is answered in this step.
Answers(r) == req[r] # req'[r] /\ req'[r].pc = "done"

\* This step leaves the selector cursor and the health map as they were.
SelectorUntouched == proxyIndex' = proxyIndex /\ proxyHealth' = proxyHealth

\* C11: an OPTIONS request (204), a request whose method is neither POST nor
\* OPTIONS (405), and a POST whose body has an empty or absent targetUrl (400)
\* are each answered in the step that receives them, without an upstream attempt
\* and with the selector cursor and the health map unchanged.
C11_EarlyReturnsTouchNothing ==
    [][\A r \in live :
          LET q == req'[r]
              early == \/ q.httpMethod = "OPTIONS"
                       \/ q.httpMethod \notin {"OPTIONS", "POST"}
                       \/ q.httpMethod = "POST" /\ q.eventBody \in NoTargetBodies
          IN  (req[r].pc \in {"idle", "done"} /\ req[r] # q /\ early) =>
                  /\ q.pc = "done"
                  /\ q.response.statusCode =
                         (IF q.httpMethod = "OPTIONS" THEN 204
                          ELSE IF q.httpMethod # "POST" THEN 405 ELSE 400)
                  /\ q.fetches = 0 /\ q.picks = 0
                  /\ SelectorUntouched]_vars

\* A POST with an empty targetUrl was answered 400 after the cursor had moved
\* and a proxy had been marked down.
C11_Witness ==
    \E r \in live :
        /\ Answered(r) /\ req[r].httpMethod = "POST"
        /\ req[r].eventBody = "{\"targetUrl\":\"\"}"
        /\ req[r].response.statusCode = 400
        /\ proxyIndex >= 0 /\ proxyHealth # << >>

\* The response of the outer catch, lines 192-196.
InternalError(q) ==
    /\ q.pc = "done"
    /\ q.response.statusCode = 500
    /\ ErrorOf(q.response) = "Internal server error"

\* C12: a POST whose body is not parseable JSON is answered 500 'Internal
\* server error' in the step that receives it, without an upstream attempt and
\* with the selector cursor and the health map unchanged; the invocation that
\* follows it is served as any other: a POST with a targetUrl goes on to its
\* first upstream attempt.
C12_BadJsonIsInternalError ==
    [][\A r \in live :
          LET q == req'[r]
          IN  /\ (req[r].pc \in {"idle", "done"} /\ req[r] # q
                     /\ q.httpMethod = "POST" /\ q.eventBody = BadJsonBody) =>
                    (InternalError(q) /\ q.fetches = 0 /\ q.picks = 0 /\ SelectorUntouched)
              /\ (InternalError(req[r]) /\ req[r].eventBody = BadJsonBody /\ req[r] # q
                     /\ q.httpMethod = "POST" /\ q.eventBody = GoodBody) =>
                    (q.pc = "fetch" /\ q.fetches = 1 /\ q.attempt = 0)]_vars

\* A POST with a body that is not JSON was answered 500 after the cursor had
\* moved and a proxy had been marked down, and the handler accepts the next
\* invocation.
C12_Witness ==
    \E r \in live :
        /\ InternalError(req[r]) /\ req[r].httpMethod = "POST"
        /\ req[r].eventBody = BadJsonBody
        /\ proxyIndex >= 0 /\ proxyHealth # << >>
        /\ ENABLED HandlerStart(r, "POST", GoodBody)

\* The results of the calls of pickNextProxy made by invocation r, in order:
\* with one invocation in progress they are the latest req[r].picks calls.
UsedBy(r) ==
    LET n == Len(picked)
        k == req[r].picks
    IN  [i \in 1..k |-> picked[n - k + i]]

\* Invocation r runs alone, found every proxy healthy when it started, has been
\* answered 5xx by every upstream call so far, and the pool has at least
\* MAX_RETRIES entries.
AloneHealthyAll5xx(r) ==
    /\ live = {r}
    /\ Len(PROXIES) >= MAX_RETRIES
    /\ req[r].picks >= 1
    /\ UsedBy(r)[1].allHealthy
    /\ req[r].only5xx

\* C13 as stated: for a request handled alone, with every proxy healthy at its
\* start, a pool of at least MAX_RETRIES entries and only 5xx responses, the
\* proxies used by its attempts are pairwise different.
C13_AttemptsUseDifferentProxies ==
    \A r \in live :
        AloneHealthyAll5xx(r) =>
            \A i, j \in 1..req[r].picks :
                i # j => UsedBy(r)[i].result # UsedBy(r)[j].result

\* C13 amended: under the same conditions and with no url occurring twice in
\* the pool, every attempt goes through a proxy, the pool positions used are
\* consecutive in cyclic order, and the proxies used are pairwise different.
C13_AttemptsUseDifferentPoolEntries ==
    \A r \in live :
        (AloneHealthyAll5xx(r) /\ NoDuplicates(PROXIES)) =>
            LET used == UsedBy(r)
            IN  /\ \A i \in 1..req[r].picks :
                      used[i].result = PROXIES[used[i].index + 1]
                /\ \A i \in 2..req[r].picks :
                      used[i].index = (used[i - 1].index + 1) % Len(PROXIES)
                /\ \A i, j \in 1..req[r].picks : i # j => used[i].result # used[j].result

\* A request that started with a healthy pool of different urls got a 5xx
\* through each of MAX_RETRIES >= 2 different proxies and was answered 502.
C13_Witness ==
    \E r \in live :
        /\ AloneHealthyAll5xx(r) /\ NoDuplicates(PROXIES)
        /\ Answered(r) /\ req[r].response.statusCode = 502
        /\ req[r].picks = MAX_RETRIES /\ MAX_RETRIES >= 2
        /\ \A i, j \in 1..req[r].picks : i # j => UsedBy(r)[i].result # UsedBy(r)[j].result

\* C14: the wait that follows the retryable failure of attempt k (counted from
\* 0) is set to BACKOFF_BASE_MS * 2^k milliseconds and the next attempt is not
\* issued before it has passed; each wait of a request is twice the one before
\* it, so with a positive base the delays strictly increase.
C14_BackoffDoubles ==
    [][\A r \in live :
          LET q == req'[r]
              n == Len(q.delays)
          IN  /\ (req[r].pc # "backoff" /\ q.pc = "backoff") =>
                    /\ n = q.attempt + 1
                    /\ q.delays[n] = BACKOFF_BASE_MS * 2^q.attempt
                    /\ q.waitUntil = clock + q.delays[n]
              /\ (req[r].pc = "backoff" /\ q.pc # "backoff") => clock >= req[r].waitUntil
              /\ \A k \in 1..n : q.delays[k] = BACKOFF_BASE_MS * 2^(k - 1)
              /\ \A k \in 2..n : /\ q.delays[k] = 2 * q.delays[k - 1]
                                  /\ BACKOFF_BASE_MS > 0 => q.delays[k] > q.delays[k - 1]]_vars

\* A request is in its second wait, which is twice as long as its first.
C14_Witness ==
    \E r \in live :
        /\ req[r].pc = "backoff" /\ req[r].attempt = 1
        /\ BACKOFF_BASE_MS > 0
        /\ req[r].delays = <<BACKOFF_BASE_MS, 2 * BACKOFF_BASE_MS>>
        /\ req[r].waitUntil = clock + 2 * BACKOFF_BASE_MS

\* The failures of an upstream call itself: the connection failed, the timer
\* of fetchWithTimeout fired, or the body could not be read.
NetworkFailures == {"request failed", "timeout", "body read failed"}

\* The health map changes in this step only in the entry of proxy p.
MarksOnly(p) ==
    /\ DOMAIN proxyHealth' = DOMAIN proxyHealth \cup {p}
    /\ \A u \in DOMAIN proxyHealth : u # p => proxyHealth'[u] = proxyHealth[u]

\* C15: the health map changes only in the entry of a proxy p, and only in a
\* step that ends an attempt sent through p with a 5xx response or with a
\* network failure or timeout; an attempt that ends with a 4xx or another
\* status that is neither 5xx nor 2xx, a success, and an attempt sent without
\* a proxy leave the whole health map unchanged.
C15_MarkDownOnlyOnRetryableFailure ==
    [][proxyHealth' # proxyHealth =>
          \E r \in live :
              LET e == req'[r].lastError
              IN  /\ req[r].pc \in {"fetch", "errText", "okJson", "okText"}
                  /\ req'[r].pc = "backoff"
                  /\ req[r].proxy # null
                  /\ MarksOnly(req[r].proxy)
                  /\ \/ "status" \in DOMAIN e /\ Is5xx(e.status)
                     \/ "error" \in DOMAIN e /\ e.error \in NetworkFailures]_vars

\* Invocation r calls markProxyDown in this step.
Marks(r) == req'[r].marks = req[r].marks + 1

\* C16: with a clock that never goes back, the down-until timestamp of every
\* proxy never decreases, whatever the interleaving of the requests that mark
\* it down, and each mark-down sets it to the current time plus
\* PROXY_MARK_DOWN_MS.
C16_DownUntilNeverDecreases ==
    [][/\ clock' >= clock
       /\ \A u \in DOMAIN proxyHealth :
             /\ u \in DOMAIN proxyHealth'
             /\ proxyHealth'[u].downUntil >= proxyHealth[u].downUntil
       /\ \A u \in DOMAIN proxyHealth' :
             (u \notin DOMAIN proxyHealth \/ proxyHealth'[u] # proxyHealth[u]) =>
                 /\ proxyHealth'[u].downUntil = clock + PROXY_MARK_DOWN_MS
                 /\ \E r \in live : Marks(r) /\ req[r].proxy = u
       /\ \A r \in live :
             Marks(r) => /\ req[r].proxy \in DOMAIN proxyHealth'
                         /\ proxyHealth'[req[r].proxy].downUntil = clock + PROXY_MARK_DOWN_MS]_vars

\* Two requests in progress have marked the same proxy down, one after the
\* other, and its down-until timestamp is the one of the later mark-down.
C16_Witness ==
    \E r1, r2 \in live :
        /\ r1 # r2
        /\ req[r1].pc = "backoff" /\ req[r2].pc = "backoff"
        /\ req[r1].marks = 1 /\ req[r2].marks = 1
        /\ req[r1].proxy = req[r2].proxy
        /\ req[r1].waitUntil < req[r2].waitUntil
        /\ proxyHealth[req[r2].proxy].downUntil
              = req[r2].waitUntil - req[r2].delays[1] + PROXY_MARK_DOWN_MS

\* Proxy p is healthy now: it was never marked down, or its down-until
\* timestamp has passed.
HealthyNow(p) == p \notin DOMAIN proxyHealth \/ proxyHealth[p].downUntil <= clock

\* The pool position k places past the cursor, in cyclic order.
PastCursor(k) == (proxyIndex + k) % Len(PROXIES)

\* C17: a call of pickNextProxy returns the first pool entry, in cyclic order
\* starting one past the cursor, that is healthy at the time of the call, and
\* leaves the cursor on the index of that entry; when it returns null the
\* cursor ends on the index it started from (for a cursor inside 0..N-1). No
\* other step moves the cursor: it is never reset between requests.
C17_FirstHealthyPastCursor ==
    [][/\ \A r \in live :
             Selects(r) =>
                 LET N == Len(PROXIES)
                     healthy == {k \in 1..N : HealthyNow(PROXIES[PastCursor(k) + 1])}
                 IN  IF healthy # {}
                     THEN LET k == CHOOSE h \in healthy : \A g \in healthy : h <= g
                          IN  /\ req'[r].proxy = PROXIES[PastCursor(k) + 1]
                              /\ proxyIndex' = PastCursor(k)
                     ELSE /\ req'[r].proxy = null
                          /\ proxyIndex \in 0..(N - 1) => proxyIndex' = proxyIndex
       /\ (\A r \in live : ~Selects(r)) => proxyIndex' = proxyIndex]_vars

\* A call of pickNextProxy has just passed over an entry that is down and
\* returned the entry after it, on which the cursor now stands.
C17_Witness ==
    \E r \in live :
        /\ req[r].pc = "fetch" /\ req[r].start = clock
        /\ req[r].examined >= 2
        /\ req[r].proxy # null
        /\ req[r].proxy = PROXIES[proxyIndex + 1]
        /\ HealthyNow(req[r].proxy)
        /\ \E u \in DOMAIN proxyHealth : ~HealthyNow(u)

\* C18: within one request at most one upstream call is awaited at any time,
\* and when the call of attempt k + 1 is issued the calls of attempts 0..k
\* have each finished or been abandoned, also when attempt k ended by timeout.
C18_OneCallAtATime ==
    [][\A r \in live :
          LET q == req'[r]
          IN  /\ q.awaited \in {0, 1}
              /\ q.awaited = 1 <=> q.pc = "fetch"
              /\ (Selects(r) /\ q.attempt > 0) =>
                    /\ req[r].awaited = 0
                    /\ q.fetches = q.attempt + 1]_vars

\* The call of attempt 1 is the only one awaited, after the call of attempt 0
\* was abandoned on timeout.
C18_Witness ==
    \E r \in live :
        /\ req[r].pc = "fetch" /\ req[r].attempt = 1
        /\ req[r].lastError = [error |-> "timeout", proxy |-> req[r].lastError.proxy,
                               attempt |-> 0]
        /\ req[r].awaited = 1

\* C19: with requests interleaving at their suspension points, every attempt
\* sent through a proxy is issued in the very step that selected the proxy, at
\* a moment when that proxy is healthy and a member of the pool: the step
\* leaves the health map and every other request as they were, and the cursor
\* on the selected entry.
C19_IssuedThroughHealthyMember ==
    [][\A r \in live :
          (Selects(r) /\ req'[r].proxy # null) =>
              LET p == req'[r].proxy
              IN  /\ HealthyNow(p)
                  /\ \E i \in 1..Len(PROXIES) : PROXIES[i] = p
                  /\ PROXIES[proxyIndex' + 1] = p
                  /\ req'[r].finalUrl = p \o req'[r].targetUrl
                  /\ req'[r].start = clock /\ clock' = clock
                  /\ proxyHealth' = proxyHealth
                  /\ \A o \in live \ {r} : req'[o] = req[o]]_vars

\* One request has just issued a call through a healthy proxy while another
\* request in progress has marked a proxy down that is still down.
C19_Witness ==
    \E r1, r2 \in live :
        /\ r1 # r2
        /\ req[r1].pc = "fetch" /\ req[r1].start = clock
        /\ req[r1].proxy # null /\ HealthyNow(req[r1].proxy)
        /\ req[r2].pc = "backoff" /\ req[r2].marks = 1
        /\ ~HealthyNow(req[r2].proxy)

\* C20: a backoff wait follows every retryable failure, the one of the final
\* attempt included: a request answered 502 'All attempts failed' has made
\* MAX_RETRIES attempts and exactly MAX_RETRIES waits, and the 502 is returned
\* by the step that ends the last wait, not before that wait has passed.
C20_WaitAfterEveryFailure ==
    [][\A r \in live :
          LET q == req'[r]
          IN  /\ q.pc = "backoff" => q.waits = q.attempt + 1
              /\ q.pc \in {"fetch", "errText", "okJson", "okText"} => q.waits = q.attempt
              /\ (Answers(r) /\ ErrorOf(q.response) = "All attempts failed") =>
                    /\ req[r].pc = "backoff"
                    /\ req[r].attempt = MAX_RETRIES - 1
                    /\ clock >= req[r].waitUntil
                    /\ q.fetches = MAX_RETRIES
                    /\ q.waits = MAX_RETRIES
                    /\ Len(q.delays) = MAX_RETRIES]_vars

\* A request was answered 502 after MAX_RETRIES >= 2 attempts and as many
\* waits, the last of them BACKOFF_BASE_MS * 2^(MAX_RETRIES - 1) long.
C20_Witness ==
    \E r \in live :
        /\ Answered(r) /\ req[r].response.statusCode = 502
        /\ ErrorOf(req[r].response) = "All attempts failed"
        /\ MAX_RETRIES >= 2
        /\ req[r].waits = MAX_RETRIES /\ req[r].fetches = MAX_RETRIES
        /\ req[r].delays[MAX_RETRIES] = BACKOFF_BASE_MS * 2^(MAX_RETRIES - 1)

====
